---- MODULE Spec2Model ----
(***************************************************************************)
(* Decoders of the PcbLib / SchLib analysis scripts                        *)
(* (scripts/analyze_pcblib.py, scripts/analyze_schlib.py).                 *)
(*                                                                         *)
(* A byte string is a sequence over 0..255 (a PcbLib buffer is kept in the *)
(* compact form described below).  Python indexes from 0 and TLA+          *)
(* sequences from 1: offsets and indices are the code's, 0-based, and the  *)
(* accessors Slice, At, BSlice translate.  Text is a sequence of Unicode   *)
(* code points.                                                            *)
(***************************************************************************)
EXTENDS Integers, Sequences, FiniteSets, TLC

VARIABLES
    data,        \* the input byte buffer of the call
    offset,      \* the cursor into data (read_block argument, loop cursor)
    pc,          \* control position of the running function
    prim_num,    \* parse_footprint_data: primitives decoded so far
    record_num,  \* analyze_schlib: records decoded so far
    records,     \* analyze_schlib: the records appended to records_by_type, in order
    result,      \* value returned by the function under call
    input        \* how the input buffer was built (not read by the program)

vars == <<data, offset, pc, prim_num, record_num, records, result, input>>

----------------------------------------------------------------------------
(* Python primitives used by the scripts                                   *)

Min(a, b) == IF a <= b THEN a ELSE b
Max(a, b) == IF a >= b THEN a ELSE b

\* bytes/str slicing s[a:b] for 0 <= a, b: clipped to the sequence, never an error
Slice(s, a, b) ==
    LET lo == Min(a, Len(s))
        hi == Min(b, Len(s))
    IN  IF hi <= lo THEN <<>> ELSE SubSeq(s, lo + 1, hi)

\* int.from_bytes(b, 'little'): 0 for the empty byte string
RECURSIVE from_bytes_le(_)
from_bytes_le(b) ==
    IF b = <<>> THEN 0 ELSE Head(b) + 256 * from_bytes_le(Tail(b))

RECURSIVE Pow256(_)
Pow256(n) == IF n = 0 THEN 1 ELSE 256 * Pow256(n - 1)

\* int.from_bytes(b, 'little', signed=True): two's complement over len(b) bytes
from_bytes_le_signed(b) ==
    IF b = <<>> THEN 0
    ELSE LET n   == Len(b)
             top == b[n]
             low == from_bytes_le(SubSeq(b, 1, n - 1))
         IN  low + Pow256(n - 1) * (IF top >= 128 THEN top - 256 ELSE top)

\* int.from_bytes(b, 'big')
RECURSIVE from_bytes_be(_)
from_bytes_be(b) ==
    IF b = <<>> THEN 0
    ELSE b[Len(b)] + 256 * from_bytes_be(SubSeq(b, 1, Len(b) - 1))

----------------------------------------------------------------------------
(* Text codecs.  A decode yields [ok, text]: ok is FALSE where Python       *)
(* raises UnicodeDecodeError.                                              *)

Decoded(t) == [ok |-> TRUE, text |-> t]
DecodeError == [ok |-> FALSE, text |-> <<>>]

\* the code points of Python's cp1252 for the bytes 0x80..0x9F; 0 marks the
\* five bytes the codec leaves undefined (0x81, 0x8D, 0x8F, 0x90, 0x9D)
Cp1252High ==
    << 8364, 0, 8218, 402, 8222, 8230, 8224, 8225,
       710, 8240, 352, 8249, 338, 0, 381, 0,
       0, 8216, 8217, 8220, 8221, 8226, 8211, 8212,
       732, 8482, 353, 8250, 339, 0, 382, 376 >>

cp1252_defined(b) == b < 128 \/ b >= 160 \/ Cp1252High[b - 127] # 0
cp1252_char(b) == IF b < 128 \/ b >= 160 THEN b ELSE Cp1252High[b - 127]

\* bytes.decode('windows-1252')
decode_cp1252(b) ==
    IF \A i \in 1..Len(b) : cp1252_defined(b[i])
    THEN Decoded([i \in 1..Len(b) |-> cp1252_char(b[i])])
    ELSE DecodeError

\* bytes.decode('latin1'): every byte is its own code point
decode_latin1(b) == Decoded(b)

IsCont(b) == b >= 128 /\ b <= 191

\* bytes.decode('utf-8'), strict: shortest forms only, no surrogates, at
\* most U+10FFFF; a sequence cut short is an error
RECURSIVE utf8_text(_)
utf8_text(b) ==
    IF b = <<>> THEN Decoded(<<>>)
    ELSE LET b1 == b[1]
             n  == IF b1 < 128 THEN 1
                   ELSE IF b1 >= 194 /\ b1 <= 223 THEN 2
                   ELSE IF b1 >= 224 /\ b1 <= 239 THEN 3
                   ELSE IF b1 >= 240 /\ b1 <= 244 THEN 4
                   ELSE 0
         IN  IF n = 0 \/ Len(b) < n THEN DecodeError
             ELSE IF \E k \in 2..n : ~IsCont(b[k]) THEN DecodeError
             ELSE IF \/ (b1 = 224 /\ b[2] < 160)
                     \/ (b1 = 237 /\ b[2] > 159)
                     \/ (b1 = 240 /\ b[2] < 144)
                     \/ (b1 = 244 /\ b[2] > 143)
             THEN DecodeError
             ELSE LET cp == CASE n = 1 -> b1
                              [] n = 2 -> (b1 - 192) * 64 + (b[2] - 128)
                              [] n = 3 -> (b1 - 224) * 4096 + (b[2] - 128) * 64
                                              + (b[3] - 128)
                              [] n = 4 -> (b1 - 240) * 262144 + (b[2] - 128) * 4096
                                              + (b[3] - 128) * 64 + (b[4] - 128)
                      rest == utf8_text(SubSeq(b, n + 1, Len(b)))
                  IN  IF rest.ok THEN Decoded(<<cp>> \o rest.text) ELSE DecodeError

decode_utf8(b) == utf8_text(b)

----------------------------------------------------------------------------
(* str methods and dict                                                    *)

\* the index of the first occurrence of c in t, 0 when there is none
RECURSIVE FirstAt(_, _, _)
FirstAt(t, c, from) ==
    IF from > Len(t) THEN 0
    ELSE IF t[from] = c THEN from
    ELSE FirstAt(t, c, from + 1)

\* c in t
Contains(t, c) == FirstAt(t, c, 1) # 0

\* t.split(c): the pieces between the occurrences of c, at least one piece
RECURSIVE split(_, _)
split(t, c) ==
    LET at == FirstAt(t, c, 1)
    IN  IF at = 0 THEN <<t>>
        ELSE <<SubSeq(t, 1, at - 1)>> \o split(SubSeq(t, at + 1, Len(t)), c)

\* t.split(c, 1) for a t that contains c: what precedes and what follows the
\* first occurrence
split_once(t, c) ==
    LET at == FirstAt(t, c, 1)
    IN  <<SubSeq(t, 1, at - 1), SubSeq(t, at + 1, Len(t))>>

\* t.rstrip(c)
RECURSIVE rstrip(_, _)
rstrip(t, c) ==
    IF t # <<>> /\ t[Len(t)] = c THEN rstrip(SubSeq(t, 1, Len(t) - 1), c) ELSE t

\* t.find(sub): the 0-based index of the first occurrence, -1 when none
RECURSIVE find_from(_, _, _)
find_from(t, sub, from) ==
    IF from + Len(sub) > Len(t) THEN -1
    ELSE IF SubSeq(t, from + 1, from + Len(sub)) = sub THEN from
    ELSE find_from(t, sub, from + 1)
find(t, sub) == find_from(t, sub, 0)

\* a dict is the sequence of its <<key, value>> items in insertion order
HasKey(d, k) == \E i \in 1..Len(d) : d[i][1] = k
KeyIndex(d, k) == CHOOSE i \in 1..Len(d) : d[i][1] = k

\* d[k] = v: a key already present keeps its place and takes the new value
dict_set(d, k, v) ==
    IF HasKey(d, k)
    THEN [d EXCEPT ![KeyIndex(d, k)] = <<k, v>>]
    ELSE Append(d, <<k, v>>)

\* d.get(k, default)
dict_get(d, k, default) == IF HasKey(d, k) THEN d[KeyIndex(d, k)][2] ELSE default

----------------------------------------------------------------------------
(* analyze_schlib.py: parse_properties                                     *)

\* the loop of parse_properties over the pieces of the text
RECURSIVE props_of_parts(_, _)
props_of_parts(parts, props) ==
    IF parts = <<>> THEN props
    ELSE LET part == Head(parts)
         IN  props_of_parts(Tail(parts),
                IF Contains(part, 61)
                THEN LET kv == split_once(part, 61)
                     IN  dict_set(props, kv[1], kv[2])
                ELSE props)

\* parse_properties(data): an exception of the decode is swallowed and the
\* empty dict returned
parse_properties(b) ==
    LET d == decode_cp1252(b)
    IN  IF d.ok THEN props_of_parts(split(d.text, 124), <<>>) ELSE <<>>

----------------------------------------------------------------------------
(* analyze_schlib.py: parse_binary_pin                                     *)

\* str(n) for an integer: its decimal digits, '-' first when negative
RECURSIVE digits(_)
digits(n) == IF n < 10 THEN <<48 + n>> ELSE Append(digits(n \div 10), 48 + (n % 10))
str_int(n) == IF n < 0 THEN <<45>> \o digits(0 - n) ELSE digits(n)

\* bool(flags & mask) read one bit too high
flag_set_shifted(flags, mask) == (flags \div (2 * mask)) % 2 = 1

\* bool(flags & mask) for a one-bit mask
flag_set(flags, mask) == (flags \div mask) % 2 = 1

\* read_i32 / read_i16 / read_i8 with the reader at `at`: reader.read(size)
\* gives the bytes that are left, up to `size` of them
read_int(b, at, size, signed) ==
    IF signed THEN from_bytes_le_signed(Slice(b, at, at + size))
    ELSE from_bytes_le(Slice(b, at, at + size))

\* reader.read(n).decode('utf-8') if n else ''
read_text(b, at, n) == IF n # 0 THEN decode_utf8(Slice(b, at, at + n)) ELSE Decoded(<<>>)

\* parse_binary_pin(data).  The reader's position after a read is the
\* position before it plus the bytes asked for, clipped to len(data); the
\* positions below are unclipped, which reads the same bytes.  `raised`: a
\* string field's decode raised; `pos`: the reader's final position.
parse_binary_pin(b) ==
    LET desc_len  == read_int(b, 12, 1, FALSE)
        desc      == read_text(b, 14, desc_len)
        p1        == 14 + desc_len
        flags     == read_int(b, p1 + 1, 1, FALSE)
        name_len  == read_int(b, p1 + 12, 1, FALSE)
        name      == read_text(b, p1 + 13, name_len)
        p2        == p1 + 13 + name_len
        designator_len == read_int(b, p2, 1, FALSE)
        designator == read_text(b, p2 + 1, designator_len)
        end       == p2 + 1 + designator_len
    IN  IF ~desc.ok \/ ~name.ok \/ ~designator.ok
        THEN [raised |-> TRUE]
        ELSE [raised |-> FALSE,
              pos    |-> Min(end, Len(b)),
              props  |-> [
                 RECORD               |-> str_int(read_int(b, 0, 4, TRUE)),
                 OwnerPartId          |-> read_int(b, 5, 2, TRUE),
                 OwnerPartDisplayMode |-> read_int(b, 7, 1, FALSE),
                 Symbol_InnerEdge     |-> read_int(b, 8, 1, FALSE),
                 Symbol_OuterEdge     |-> read_int(b, 9, 1, FALSE),
                 Symbol_Inside        |-> read_int(b, 10, 1, FALSE),
                 Symbol_Outside       |-> read_int(b, 11, 1, FALSE),
                 Description          |-> desc.text,
                 Electrical_Type      |-> read_int(b, p1, 1, FALSE),
                 Rotated              |-> flag_set(flags, 1),
                 Flipped              |-> flag_set(flags, 2),
                 Hide                 |-> flag_set(flags, 4),
                 Show_Name            |-> flag_set(flags, 8),
                 Show_Designator      |-> flag_set(flags, 16),
                 Length               |-> read_int(b, p1 + 2, 2, FALSE),
                 LocationX            |-> read_int(b, p1 + 4, 2, TRUE),
                 LocationY            |-> read_int(b, p1 + 6, 2, TRUE),
                 Color                |-> read_int(b, p1 + 8, 4, TRUE),
                 Name                 |-> name.text,
                 Designator           |-> designator.text ]]

----------------------------------------------------------------------------
(* analyze_schlib.py: the record loop of one component's Data stream       *)

\* b.hex(): two lowercase hexadecimal digits per byte
hex_digit(n) == IF n < 10 THEN 48 + n ELSE 87 + n
RECURSIVE hex(_)
hex(b) ==
    IF b = <<>> THEN <<>>
    ELSE <<hex_digit(Head(b) \div 16), hex_digit(Head(b) % 16)>> \o hex(Tail(b))

\* the str literals 'RECORD', 'unknown', '2-binary', 'unknown-type-', '_raw'
StrRECORD == <<82, 69, 67, 79, 82, 68>>
StrUnknown == <<117, 110, 107, 110, 111, 119, 110>>
Str2Binary == <<50, 45, 98, 105, 110, 97, 114, 121>>
StrUnknownType == <<117, 110, 107, 110, 111, 119, 110, 45, 116, 121, 112, 101, 45>>
StrRaw == <<95, 114, 97, 119>>

\* the header at the cursor: [RecordLength:2 LE][RecordType:2 BE]
record_length(b, off) == from_bytes_le(Slice(b, off, off + 2))
record_type(b, off) == from_bytes_be(Slice(b, off + 2, off + 4))
record_data(b, off) == Slice(b, off + 4, off + 4 + record_length(b, off))

\* the dispatch on record_type: the record appended to records_by_type, or
\* raised when parse_binary_pin raises
decode_record(b, off) ==
    LET payload == record_data(b, off)
        type == record_type(b, off)
    IN  IF type = 0
        THEN LET props == parse_properties(payload)
             IN  [raised |-> FALSE, rec_id |-> dict_get(props, StrRECORD, StrUnknown),
                  props |-> props]
        ELSE IF type = 1
        THEN LET pin == parse_binary_pin(payload)
             IN  IF pin.raised THEN [raised |-> TRUE]
                 ELSE [raised |-> FALSE, rec_id |-> Str2Binary, props |-> pin.props]
        ELSE [raised |-> FALSE, rec_id |-> StrUnknownType \o str_int(type),
              props |-> <<<<StrRaw, hex(Slice(payload, 0, 50))>>>>]

----------------------------------------------------------------------------
(* PcbLib buffers.  A block may declare up to 100000 bytes, so a PcbLib     *)
(* buffer is kept as its bytes up to the last non-zero one (head) and the  *)
(* number of zero bytes that follow (pad): <<4, 0, 0>> is                  *)
(* [head |-> <<4>>, pad |-> 2].  Every byte string has exactly one such    *)
(* form, so equality of forms is equality of byte strings.                 *)

RECURSIVE Norm(_, _)
Norm(h, p) ==
    IF h # <<>> /\ h[Len(h)] = 0
    THEN Norm(SubSeq(h, 1, Len(h) - 1), p + 1)
    ELSE [head |-> h, pad |-> p]

Bytes(s) == Norm(s, 0)
Empty == Bytes(<<>>)

\* len(buf)
BLen(buf) == Len(buf.head) + buf.pad

\* buf[i], 0 <= i < len(buf)
At(buf, i) == IF i < Len(buf.head) THEN buf.head[i + 1] ELSE 0

\* buf[a:b], clipped like every Python slice
BSlice(buf, a, b) ==
    LET lo == Min(a, BLen(buf))
        hi == Min(b, BLen(buf))
        hl == Len(buf.head)
    IN  IF hi <= lo THEN Empty
        ELSE Norm(IF lo < hl THEN SubSeq(buf.head, lo + 1, Min(hi, hl)) ELSE <<>>,
                  IF hi > hl THEN hi - Max(lo, hl) ELSE 0)

\* the bytes of a (short) buffer as a sequence
ToSeq(buf) == buf.head \o [i \in 1..buf.pad |-> 0]

\* struct.unpack_from(fmt, buf, off) raises struct.error unless the buffer
\* holds `size` bytes from `off`
unpack_raises(size, buf, off) == off + size > BLen(buf)

\* struct.unpack_from("<I", buf, off)[0], where it does not raise
unpack_u32(buf, off) == from_bytes_le(ToSeq(BSlice(buf, off, off + 4)))

----------------------------------------------------------------------------
(* analyze_pcblib.py: read_block                                           *)

\* the sanity ceiling on a block's declared length
MaxBlockLen == 100000

\* read_block with the ceiling test left out
read_block_no_ceiling(buf, off) ==
    IF off + 4 > BLen(buf)
    THEN [block |-> Empty, offset |-> off, raised |-> FALSE]
    ELSE LET block_len == unpack_u32(buf, off)
         IN  IF off + 4 + block_len > BLen(buf)
             THEN [block |-> Empty, offset |-> off, raised |-> FALSE]
             ELSE [block  |-> BSlice(buf, off + 4, off + 4 + block_len),
                   offset |-> off + 4 + block_len,
                   raised |-> FALSE]

\* read_block whose slice starts at the length field instead of after it
read_block_slice_off(buf, off) ==
    IF off + 4 > BLen(buf)
    THEN [block |-> Empty, offset |-> off, raised |-> FALSE]
    ELSE LET block_len == unpack_u32(buf, off)
         IN  IF block_len > MaxBlockLen \/ off + 4 + block_len > BLen(buf)
             THEN [block |-> Empty, offset |-> off, raised |-> FALSE]
             ELSE [block  |-> BSlice(buf, off, off + block_len),
                   offset |-> off + 4 + block_len,
                   raised |-> FALSE]

\* read_block without the test that the declared length fits the buffer
read_block_no_fit_test(buf, off) ==
    IF off + 4 > BLen(buf)
    THEN [block |-> Empty, offset |-> off, raised |-> FALSE]
    ELSE LET block_len == unpack_u32(buf, off)
         IN  IF block_len > MaxBlockLen
             THEN [block |-> Empty, offset |-> off, raised |-> FALSE]
             ELSE [block  |-> BSlice(buf, off + 4, off + 4 + block_len),
                   offset |-> off + 4 + block_len,
                   raised |-> FALSE]

\* read_block(data, offset) -> (block_data, new_offset).  `raised` records
\* whether struct.unpack_from was reached with fewer than 4 bytes left.
read_block(buf, off) ==
    IF off + 4 > BLen(buf)
    THEN [block |-> Empty, offset |-> off, raised |-> FALSE]
    ELSE IF unpack_raises(4, buf, off)
    THEN [block |-> Empty, offset |-> off, raised |-> TRUE]
    ELSE LET block_len == unpack_u32(buf, off)
         IN  IF block_len > MaxBlockLen \/ off + 4 + block_len > BLen(buf)
             THEN [block |-> Empty, offset |-> off, raised |-> FALSE]
             ELSE [block  |-> BSlice(buf, off + 4, off + 4 + block_len),
                   offset |-> off + 4 + block_len,
                   raised |-> FALSE]

\* read_string_from_block(block_data): [str_len:1][string:str_len]; the empty
\* string when the length does not fit or the decode raises
read_string_from_block(block_data) ==
    IF BLen(block_data) < 1 THEN <<>>
    ELSE LET str_len == At(block_data, 0)
         IN  IF str_len + 1 > BLen(block_data) THEN <<>>
             ELSE LET d == decode_cp1252(ToSeq(BSlice(block_data, 1, 1 + str_len)))
                  IN  IF d.ok THEN d.text ELSE <<>>

\* the marker that starts the parameter string of a ComponentBody: 'V7_LAYER'
V7_LAYER == <<86, 55, 95, 76, 65, 89, 69, 82>>

\* the loop of parse_component_body_params over the pairs: values lose their
\* trailing NUL characters
RECURSIVE params_of_pairs(_, _)
params_of_pairs(pairs, params) ==
    IF pairs = <<>> THEN params
    ELSE LET pair == Head(pairs)
         IN  params_of_pairs(Tail(pairs),
                IF Contains(pair, 61)
                THEN LET kv == split_once(pair, 61)
                     IN  dict_set(params, kv[1], rstrip(kv[2], 0))
                ELSE params)

\* parse_component_body_params(block)
parse_component_body_params(block) ==
    LET d == decode_latin1(ToSeq(block))
        v7_idx == find(d.text, V7_LAYER)
    IN  IF d.ok /\ v7_idx >= 0
        THEN params_of_pairs(split(SubSeq(d.text, v7_idx + 1, Len(d.text)), 124), <<>>)
        ELSE <<>>

----------------------------------------------------------------------------
(* analyze_pcblib.py: the per-kind block sequences.  Each returns the new   *)
(* cursor; `raised` tells whether decoding the fields raised an exception  *)
(* (the decoded fields are only printed).                                  *)

\* a call that returned `off` / a call that raised
Ret(off) == [offset |-> off, raised |-> FALSE]
Raise(off) == [offset |-> off, raised |-> TRUE]

\* block[i] raises IndexError unless i < len(block)
index_raises(block, i) == i >= BLen(block)

\* parse_pad_geometry: the reads of a geometry block, each behind its guard
parse_pad_geometry_raises(block) ==
    /\ BLen(block) >= 45
    /\ \/ index_raises(block, 0)
       \/ \E at \in {13, 17, 21, 25, 29, 33, 37, 41} : unpack_raises(4, block, at)
       \/ BLen(block) > 48 /\ unpack_raises(4, block, 45)
       \/ BLen(block) > 51 /\ \E i \in {49, 50, 51} : index_raises(block, i)
       \/ BLen(block) > 59 /\ unpack_raises(8, block, 52)

\* parse_pad_blocks_v2 reading five blocks instead of six
parse_pad_blocks_five(buf, off) ==
    LET b0 == read_block(buf, off)
        b1 == read_block(buf, b0.offset)
        b2 == read_block(buf, b1.offset)
        b3 == read_block(buf, b2.offset)
        b4 == read_block(buf, b3.offset)
    IN  Ret(b4.offset)

parse_pad_blocks_v2(buf, off) ==
    LET b0 == read_block(buf, off)
        b1 == read_block(buf, b0.offset)
        b2 == read_block(buf, b1.offset)
        b3 == read_block(buf, b2.offset)
        b4 == read_block(buf, b3.offset)
        b5 == read_block(buf, b4.offset)
    IN  IF BLen(b4.block) >= 45 /\ parse_pad_geometry_raises(b4.block)
        THEN Raise(b4.offset)
        ELSE Ret(b5.offset)

parse_track_blocks(buf, off) ==
    LET b == read_block(buf, off)
    IN  IF BLen(b.block) >= 45
           /\ \E at \in {13, 17, 21, 25, 29} : unpack_raises(4, b.block, at)
        THEN Raise(b.offset)
        ELSE Ret(b.offset)

parse_arc_blocks(buf, off) ==
    LET b == read_block(buf, off)
    IN  IF BLen(b.block) >= 45
           /\ \/ \E at \in {13, 17, 21} : unpack_raises(4, b.block, at)
              \/ \E at \in {25, 33} : unpack_raises(8, b.block, at)
        THEN Raise(b.offset)
        ELSE Ret(b.offset)

\* parse_text_blocks without its second block (the text content)
parse_text_blocks_one(buf, off) ==
    Ret(read_block(buf, off).offset)

parse_text_blocks(buf, off) ==
    LET b0 == read_block(buf, off)
        b1 == read_block(buf, b0.offset)
    IN  IF BLen(b0.block) >= 25
           /\ \/ \E at \in {13, 17, 21} : unpack_raises(4, b0.block, at)
              \/ BLen(b0.block) > 35 /\ unpack_raises(8, b0.block, 27)
        THEN Raise(b0.offset)
        ELSE Ret(b1.offset)

\* float -> int conversion int(x) raises for an infinity or a NaN: the 8-byte
\* little-endian double at `at` has all eleven exponent bits set
int_of_double_raises(block, at) ==
    /\ At(block, at + 7) % 128 = 127
    /\ At(block, at + 6) \div 16 = 15

\* the vertices the loop of parse_region_blocks decodes from the vertices
\* block: indices i < vertex_count with 4 + 16 i + 16 <= len(block1) (no such
\* i reaches len(block1) / 16)
region_vertex_indices(block1) ==
    IF BLen(block1) < 4 THEN {}
    ELSE LET vertex_count == unpack_u32(block1, 0)
         IN  {i \in 0..Min(vertex_count, BLen(block1) \div 16) - 1 :
                 4 + i * 16 + 16 <= BLen(block1)}

parse_region_blocks(buf, off) ==
    LET b0 == read_block(buf, off)
        b1 == read_block(buf, b0.offset)
    IN  IF \E i \in region_vertex_indices(b1.block) :
              \/ unpack_raises(8, b1.block, 4 + i * 16)
              \/ unpack_raises(8, b1.block, 4 + i * 16 + 8)
              \/ int_of_double_raises(b1.block, 4 + i * 16)
              \/ int_of_double_raises(b1.block, 4 + i * 16 + 8)
        THEN Raise(b1.offset)
        ELSE Ret(b1.offset)

\* decoding vertex i of the vertices block raises: a struct.error of an
\* unpack, or int(x) / int(y) of a coordinate that is no finite number
vertex_raises(block1, i) ==
    \/ unpack_raises(8, block1, 4 + i * 16)
    \/ unpack_raises(8, block1, 4 + i * 16 + 8)
    \/ int_of_double_raises(block1, 4 + i * 16)
    \/ int_of_double_raises(block1, 4 + i * 16 + 8)

\* the "Vertex[i]" lines parse_region_blocks prints for a vertices block, in
\* order, each with the 8 bytes unpacked as x and as y; `raised` when the loop
\* was left by an exception (the vertex that raised is not printed)
region_vertices(block1) ==
    LET idx == region_vertex_indices(block1)
        bad == {i \in idx : vertex_raises(block1, i)}
        printed == IF bad = {} THEN Cardinality(idx)
                   ELSE CHOOSE i \in bad : \A j \in bad : i <= j
    IN  [raised |-> bad # {},
         vertices |-> [k \in 1..printed |->
                         [i |-> k - 1,
                          x |-> ToSeq(BSlice(block1, 4 + (k - 1) * 16,
                                             4 + (k - 1) * 16 + 8)),
                          y |-> ToSeq(BSlice(block1, 4 + (k - 1) * 16 + 8,
                                             4 + (k - 1) * 16 + 16))]]]

parse_fill_blocks(buf, off) ==
    LET b == read_block(buf, off)
    IN  IF BLen(b.block) >= 37
           /\ \/ \E at \in {13, 17, 21, 25} : unpack_raises(4, b.block, at)
              \/ BLen(b.block) > 36 /\ unpack_raises(8, b.block, 29)
        THEN Raise(b.offset)
        ELSE Ret(b.offset)

parse_component_body_blocks(buf, off) ==
    LET b0 == read_block(buf, off)
        b1 == read_block(buf, b0.offset)
        b2 == read_block(buf, b1.offset)
    IN  Ret(b2.offset)

\* the names parse_footprint_data prints for a record type
record_names == {1, 2, 3, 4, 5, 6, 11, 12}

\* the record types the if/elif chain of parse_footprint_data decodes
DecodedTypes == {2, 4, 1, 5, 11, 6, 12}

\* the branch of the if/elif chain taken for a decoded record type
parse_primitive(rtype, buf, off) ==
    CASE rtype = 2  -> parse_pad_blocks_v2(buf, off)
      [] rtype = 4  -> parse_track_blocks(buf, off)
      [] rtype = 1  -> parse_arc_blocks(buf, off)
      [] rtype = 5  -> parse_text_blocks(buf, off)
      [] rtype = 11 -> parse_region_blocks(buf, off)
      [] rtype = 6  -> parse_fill_blocks(buf, off)
      [] rtype = 12 -> parse_component_body_blocks(buf, off)

----------------------------------------------------------------------------
(* Inputs                                                                  *)

\* longest enumerated buffer handed to read_block
MaxBufLen == 6

\* byte values of the enumerated buffers (length fields stay below 2^31)
BufBytes == {0, 1, 2, 127}

RECURSIVE SeqsUpTo(_, _)
SeqsUpTo(S, n) ==
    IF n = 0 THEN {<<>>}
    ELSE LET shorter == SeqsUpTo(S, n - 1)
         IN  shorter \cup {Append(s, x) : s \in {t \in shorter : Len(t) = n - 1}, x \in S}

\* the 4-byte little-endian encoding of a length, as a file writer stores it
LE32(n) == <<n % 256, (n \div 256) % 256, (n \div 65536) % 256, (n \div 16777216) % 256>>

\* buffers holding one all-zero block at or just above the ceiling, whole or
\* one byte short
BigBufs ==
    {[head |-> LE32(len), pad |-> len - short] :
        len \in {MaxBlockLen, MaxBlockLen + 1}, short \in {0, 1}}

Idle == [kind |-> "none"]

----------------
(* Specification SpecBlock: one call of read_block                         *)

InitBlock ==
    /\ \/ /\ data \in {Bytes(s) : s \in SeqsUpTo(BufBytes, MaxBufLen)}
          /\ offset \in 0..BLen(data)
       \/ /\ data \in BigBufs
          /\ offset = 0
    /\ pc = "call"
    /\ prim_num = 0
    /\ record_num = 0
    /\ records = <<>>
    /\ result = Idle
    /\ input = Idle

CallReadBlock ==
    /\ pc = "call"
    /\ result' = read_block(data, offset)
    /\ pc' = "returned"
    /\ UNCHANGED <<data, offset, prim_num, record_num, records, input>>

NextBlock == CallReadBlock

SpecBlock == InitBlock /\ [][NextBlock]_vars

\* what the length field at the cursor declares, when the cursor leaves room for it
HasLength == offset + 4 <= BLen(data)
DeclaredLen == unpack_u32(data, offset)

\* C1: a block whose declared length L overruns the buffer (offset+4+L > len)
\* or exceeds the ceiling is answered with the failure value (empty block,
\* cursor not moved), which no successful read returns (a successful read
\* moves the cursor by at least 4); the length is never unpacked out of bounds.
C1_TruncatedIsDistinctFailure ==
    (pc = "returned" /\ HasLength) =>
        /\ ~result.raised
        /\ (DeclaredLen > MaxBlockLen \/ offset + 4 + DeclaredLen > BLen(data))
             => (result.block = Empty /\ result.offset = offset)
        /\ ~(DeclaredLen > MaxBlockLen \/ offset + 4 + DeclaredLen > BLen(data))
             => result.offset >= offset + 4

C1_Witness ==
    /\ pc = "returned"
    /\ HasLength
    /\ DeclaredLen > MaxBlockLen
    /\ offset + 4 + DeclaredLen <= BLen(data)
    /\ result.offset = offset

\* C2 (as stated): whenever offset+4+L <= len(buffer), read_block returns the
\* L bytes after the length field and the cursor offset+4+L.
C2_Original ==
    (pc = "returned" /\ HasLength /\ offset + 4 + DeclaredLen <= BLen(data)) =>
        /\ result.block = BSlice(data, offset + 4, offset + 4 + DeclaredLen)
        /\ BLen(result.block) = DeclaredLen
        /\ result.offset = offset + 4 + DeclaredLen

\* C2 (amended): whenever offset+4+L <= len(buffer) and L <= 100000,
\* read_block returns exactly the L bytes buffer[offset+4 .. offset+4+L) and
\* the cursor offset+4+L.
C2_FittingBlockRead ==
    (pc = "returned" /\ HasLength /\ offset + 4 + DeclaredLen <= BLen(data)
        /\ DeclaredLen <= MaxBlockLen) =>
        /\ BLen(result.block) = DeclaredLen
        /\ \A i \in 0..DeclaredLen - 1 :
               At(result.block, i) = At(data, offset + 4 + i)
        /\ result.offset = offset + 4 + DeclaredLen

C2_Witness ==
    /\ pc = "returned"
    /\ HasLength
    /\ DeclaredLen = 2
    /\ offset = 0
    /\ ToSeq(result.block) = <<127, 1>>
    /\ result.offset = 6

----------------------------------------------------------------------------
(* Footprint streams                                                       *)

\* most primitives, terminators and stray bytes after the name block
MaxItems == 3

\* a block as a file writer stores it: 4-byte little-endian length, content
Block(content) == LE32(Len(content)) \o content

\* 8-byte little-endian doubles: 1.0, 0.0 and a quiet NaN
DoubleOne == <<0, 0, 0, 0, 0, 0, 240, 63>>
DoubleZero == <<0, 0, 0, 0, 0, 0, 0, 0>>
DoubleNaN == <<0, 0, 0, 0, 0, 0, 248, 127>>

\* the pieces a stream is put together from
ItemBytes(item) ==
    CASE item = "arc"    -> <<1>> \o Block(<<>>)
      [] item = "pad"    -> <<2>> \o Block(<<1, 49>>) \o Block(<<>>)
                               \o Block(<<4, 124, 38, 124, 48>>) \o Block(<<0>>)
                               \o Block(<<1, 0>>) \o Block(<<>>)
      [] item = "track"  -> <<4>> \o Block(<<0, 0>>)
      [] item = "text"   -> <<5>> \o Block(<<1>>) \o Block(<<1, 65>>)
      [] item = "fill"   -> <<6>> \o Block(<<3, 0, 7>>)
      [] item = "region" -> <<11>> \o Block(<<1>>)
                               \o Block(LE32(1) \o DoubleOne \o DoubleZero)
      [] item = "body"   -> <<12>> \o Block(<<>>) \o Block(<<0>>) \o Block(<<9>>)
      \* a region whose one vertex has a NaN coordinate
      [] item = "region_nan" -> <<11>> \o Block(<<1>>)
                               \o Block(LE32(1) \o DoubleOne \o DoubleNaN)
      \* a track whose block declares 256 bytes
      [] item = "track_cut"  -> <<4>> \o LE32(256)
      \* a track whose block declares 5 bytes
      [] item = "track_short" -> <<4>> \o LE32(5)
      [] item = "end"     -> <<0>>
      [] item = "via"     -> <<3>>
      [] item = "unknown" -> <<7>>

\* primitives whose blocks are all present, within the ceiling and hold
\* finite coordinates
WellFormed == {"arc", "pad", "track", "text", "fill", "region", "body"}
Items == WellFormed \cup {"region_nan", "track_cut", "track_short", "end", "via", "unknown"}

RECURSIVE ItemsBytes(_)
ItemsBytes(items) ==
    IF items = <<>> THEN <<>> ELSE ItemBytes(Head(items)) \o ItemsBytes(Tail(items))

\* the name block: [block_len:4][str_len:1][name]
NameBlock == Block(<<1, 80>>)

\* buffers parse_footprint_data returns from before its loop
NoStream == {<<>>, <<1, 0, 0>>, LE32(9) \o <<1, 80>>, NameBlock}

----------------------------------------------------------------------------
(* Specification SpecFootprint: parse_footprint_data on one Data stream    *)

InitFootprint ==
    /\ \/ /\ input \in {[kind |-> "footprint", items |-> it] :
                           it \in SeqsUpTo(Items, MaxItems) \ {<<>>}}
          /\ data = Bytes(NameBlock \o ItemsBytes(input.items))
       \/ /\ data \in {Bytes(b) : b \in NoStream}
          /\ input = [kind |-> "footprint", items |-> <<>>]
    /\ offset = 0
    /\ pc = "start"
    /\ prim_num = 0
    /\ record_num = 0
    /\ records = <<>>
    /\ result = Idle

\* lines 72-94: the name block; the loop starts behind it
ParseName ==
    /\ pc = "start"
    /\ IF BLen(data) < 5
       THEN pc' = "Returned" /\ offset' = offset
       ELSE LET block_len == unpack_u32(data, 0)
            IN  IF block_len + 4 > BLen(data)
                THEN pc' = "Returned" /\ offset' = offset
                ELSE /\ offset' = 4 + block_len
                     /\ pc' = IF 4 + block_len >= BLen(data) THEN "Returned" ELSE "Reading"
    /\ UNCHANGED <<data, prim_num, record_num, records, result, input>>

\* lines 104-109: a record type of 0 ends the stream
ReadTerminator ==
    /\ pc = "Reading"
    /\ offset < BLen(data)
    /\ At(data, offset) = 0
    /\ pc' = "Done"
    /\ UNCHANGED <<data, offset, prim_num, record_num, records, result, input>>

\* lines 104-139, 146: a decoded record type: its blocks are read, the
\* primitive is counted; an exception leaves the function
DecodePrimitive ==
    /\ pc = "Reading"
    /\ offset < BLen(data)
    /\ At(data, offset) \in DecodedTypes
    /\ LET r == parse_primitive(At(data, offset), data, offset + 1)
       IN  IF r.raised
           THEN pc' = "Raised" /\ offset' = offset + 1 /\ prim_num' = prim_num
           ELSE pc' = "Reading" /\ offset' = r.offset /\ prim_num' = prim_num + 1
    /\ UNCHANGED <<data, record_num, records, result, input>>

\* lines 104-123, 140-144: any other record type: the cursor has passed the
\* tag, and the loop is left
SkipUnknown ==
    /\ pc = "Reading"
    /\ offset < BLen(data)
    /\ At(data, offset) # 0
    /\ At(data, offset) \notin DecodedTypes
    /\ offset' = offset + 1
    /\ pc' = "Aborted"
    /\ UNCHANGED <<data, prim_num, record_num, records, result, input>>

\* line 104: the cursor has reached the end of the buffer
EndOfBuffer ==
    /\ pc = "Reading"
    /\ offset >= BLen(data)
    /\ pc' = "Exhausted"
    /\ UNCHANGED <<data, offset, prim_num, record_num, records, result, input>>

NextFootprint ==
    \/ ParseName
    \/ ReadTerminator
    \/ DecodePrimitive
    \/ SkipUnknown
    \/ EndOfBuffer

SpecFootprint == InitFootprint /\ [][NextFootprint]_vars

\* how the stream was put together: the well-formed primitives it starts
\* with, and where they end in the buffer
RECURSIVE WfPrefix(_)
WfPrefix(items) ==
    IF items # <<>> /\ Head(items) \in WellFormed THEN 1 + WfPrefix(Tail(items)) ELSE 0

NumWellFormed == WfPrefix(input.items)
AfterWellFormed ==
    Len(NameBlock) + Len(ItemsBytes(SubSeq(input.items, 1, NumWellFormed)))

\* N well-formed primitives, then a 0x00 tag, then anything
ProperlyTerminated ==
    /\ input.kind = "footprint"
    /\ NumWellFormed < Len(input.items)
    /\ input.items[NumWellFormed + 1] = "end"

\* C3: a stream of N >= 0 well-formed primitives (blocks all present, within
\* the ceiling, coordinates finite) followed by a 0x00 tag decodes exactly N
\* primitives and ends in Done with the cursor on the terminator: no state of
\* the decode has the cursor past the terminator or leaves the loop another way.
C3_TerminatedStreamDecodes ==
    ProperlyTerminated =>
        /\ pc \in {"start", "Reading", "Done"}
        /\ offset <= AfterWellFormed
        /\ prim_num <= NumWellFormed
        /\ pc = "Done" => (prim_num = NumWellFormed /\ offset = AfterWellFormed)
        /\ (pc = "Reading" /\ offset = AfterWellFormed) => prim_num = NumWellFormed

C3_Witness ==
    /\ ProperlyTerminated
    /\ pc = "Done"
    /\ input.items = <<"pad", "region", "end">>
    /\ prim_num = 2
    /\ At(data, offset) = 0

\* C4 (as stated): in Reading, every non-zero tag of the table {1, 2, 3, 4, 5,
\* 6, 0x0B, 0x0C} appends one primitive and stays in Reading; the loop moves
\* to Aborted only for a tag outside the table, and then the count is kept.
C4_TableTagsDecoded ==
    [][ (pc = "Reading" /\ offset < BLen(data) /\ At(data, offset) # 0) =>
            /\ At(data, offset) \in record_names =>
                  (pc' = "Reading" /\ prim_num' = prim_num + 1)
            /\ pc' = "Aborted" =>
                  (At(data, offset) \notin record_names /\ prim_num' = prim_num) ]_vars

\* a stream without terminator: well-formed primitives up to the end of the
\* buffer, or up to a track whose declared block runs past the end
Unterminated ==
    /\ input.kind = "footprint"
    /\ input.items # <<>>
    /\ \/ NumWellFormed = Len(input.items)
       \/ /\ NumWellFormed < Len(input.items)
          /\ \/ input.items[NumWellFormed + 1] = "track_cut"
             \/ /\ input.items[NumWellFormed + 1] = "track_short"
                /\ NumWellFormed + 1 = Len(input.items)

\* C6 (as stated): a stream whose buffer ends before a terminating 0 tag never
\* ends in the outcome of a properly terminated stream (Done).
C6_UnterminatedNeverDone ==
    Unterminated => pc # "Done"

----------------------------------------------------------------------------
(* Inputs of the text and pin decoders                                     *)

\* longest enumerated property text
MaxTextLen == 5

\* 'A', '=', '|', and two bytes above 0x7F: 0x80 (the euro sign in cp1252)
\* and 0x81 (undefined in cp1252)
TextBytes == {65, 61, 124, 128, 129}

\* the two examples of property text: "A=1|B=2|C" and "A=1|A=2"
TextExamples ==
    { <<65, 61, 49, 124, 66, 61, 50, 124, 67>>, <<65, 61, 49, 124, 65, 61, 50>> }

\* blocks handed to read_string_from_block: a length byte and up to
\* MaxStringLen further bytes
MaxStringLen == 2
StringBytes == {65, 128, 129, 255}
StringBlocks ==
    {<<>>} \cup {<<n>> \o t : n \in 0..MaxStringLen + 1, t \in SeqsUpTo(StringBytes, MaxStringLen)}

\* blocks handed to parse_component_body_params: bytes, the marker, a
\* parameter string
BodyTails ==
    { <<>>, <<61, 49>>, <<61, 49, 0, 0>>, <<61, 49, 124, 65, 61, 129, 0>>,
      <<61, 49, 124, 86, 55, 95, 76, 65, 89, 69, 82, 61, 50>>, <<124, 65>> }
BodyBlocks ==
    {pre \o V7_LAYER \o tail : pre \in {<<>>, <<0, 65, 61, 49, 124>>}, tail \in BodyTails}
        \cup {<<>>, <<65, 61, 49>>}

\* the bytes of an integer n stored little-endian in `width` bytes (two's
\* complement for a negative n), as a file writer stores it
RECURSIVE EncInt(_, _)
EncInt(n, width) ==
    IF width = 0 THEN <<>> ELSE <<n % 256>> \o EncInt(n \div 256, width - 1)

\* UTF-8 of one code point below U+10000, and of a text
EncodeChar(cp) ==
    IF cp < 128 THEN <<cp>>
    ELSE IF cp < 2048 THEN <<192 + cp \div 64, 128 + (cp % 64)>>
    ELSE <<224 + cp \div 4096, 128 + ((cp \div 64) % 64), 128 + (cp % 64)>>

RECURSIVE EncodeUtf8(_)
EncodeUtf8(t) == IF t = <<>> THEN <<>> ELSE EncodeChar(Head(t)) \o EncodeUtf8(Tail(t))

\* a BinaryPinRecord payload with the given bytes in its three string fields
EncodePinWith(f, desc, name, designator) ==
    EncInt(f.recordKind, 4) \o <<f.skip1>> \o EncInt(f.ownerPartId, 2)
        \o <<f.ownerPartDisplayMode>>
        \o <<f.innerEdge, f.outerEdge, f.inside, f.outside>>
        \o <<Len(desc), f.skip2>> \o desc
        \o <<f.electricalType>>
        \o <<(IF f.rotated THEN 1 ELSE 0) + (IF f.flipped THEN 2 ELSE 0)
              + (IF f.hidden THEN 4 ELSE 0) + (IF f.showName THEN 8 ELSE 0)
              + (IF f.showDesignator THEN 16 ELSE 0) + f.spareFlags>>
        \o EncInt(f.length, 2) \o EncInt(f.x, 2) \o EncInt(f.y, 2)
        \o EncInt(f.color, 4)
        \o <<Len(name)>> \o name
        \o <<Len(designator)>> \o designator

\* a BinaryPinRecord payload built from known field values
EncodePin(f) ==
    EncodePinWith(f, EncodeUtf8(f.description), EncodeUtf8(f.name),
                  EncodeUtf8(f.designator))

\* the field values pins are built from; a text may be empty, ASCII, or hold
\* U+00E9 (two bytes in UTF-8) or U+20AC (three)
PinNumbers ==
    { [recordKind |-> 2, ownerPartId |-> 1, length |-> 300, x |-> -1, y |-> 200,
       color |-> 255, skip1 |-> 0, skip2 |-> 0, spareFlags |-> 0],
      [recordKind |-> -1, ownerPartId |-> -1, length |-> 65535, x |-> -32768,
       y |-> 32767, color |-> -16777216, skip1 |-> 255, skip2 |-> 7, spareFlags |-> 224],
      [recordKind |-> 70000, ownerPartId |-> -32768, length |-> 0, x |-> 255,
       y |-> -256, color |-> 8388736, skip1 |-> 1, skip2 |-> 255, spareFlags |-> 32] }
PinCodes ==
    { [ownerPartDisplayMode |-> 0, innerEdge |-> 0, outerEdge |-> 1, inside |-> 2,
       outside |-> 3, electricalType |-> 4],
      [ownerPartDisplayMode |-> 255, innerEdge |-> 4, outerEdge |-> 3, inside |-> 2,
       outside |-> 1, electricalType |-> 0] }
PinFlags ==
    { [rotated |-> r, flipped |-> f, hidden |-> h, showName |-> n, showDesignator |-> d] :
        r \in BOOLEAN, f \in BOOLEAN, h \in BOOLEAN, n \in BOOLEAN, d \in BOOLEAN }
PinTexts ==
    { [description |-> <<>>, name |-> <<>>, designator |-> <<>>],
      [description |-> <<100>>, name |-> <<78, 233>>, designator |-> <<49>>],
      [description |-> <<233, 8364>>, name |-> <<>>, designator |-> <<49, 50>>] }

Merge(a, b) == [k \in DOMAIN a \cup DOMAIN b |-> IF k \in DOMAIN a THEN a[k] ELSE b[k]]

PinFields ==
    {Merge(Merge(n, c), Merge(fl, t)) :
        n \in PinNumbers, c \in PinCodes, fl \in PinFlags, t \in PinTexts}

\* the field values whose payloads are also cut short
CutPins ==
    {f \in PinFields : f.recordKind = 2 /\ f.ownerPartDisplayMode = 0
                        /\ f.rotated /\ f.flipped /\ f.hidden /\ f.showName
                        /\ f.showDesignator}

\* string-field bytes that are no UTF-8: a lone 0xFF, a cp1252 euro sign (a
\* continuation byte with nothing before it), a two-byte sequence cut short
BadUtf8 == {<<255>>, <<128>>, <<65, 195>>}

\* Region vertices blocks: a declared vertex count, up to MaxVertices stored
\* vertices, and a tail too short for a further vertex
MaxVertices == 2
DoubleTwo == <<0, 0, 0, 0, 0, 0, 0, 64>>
DoubleInf == <<0, 0, 0, 0, 0, 0, 240, 127>>
FiniteCoords == {[x |-> DoubleOne, y |-> DoubleZero], [x |-> DoubleTwo, y |-> DoubleOne],
                 [x |-> DoubleZero, y |-> DoubleTwo]}
VertexCoords ==
    FiniteCoords \cup {[x |-> DoubleOne, y |-> DoubleNaN], [x |-> DoubleInf, y |-> DoubleZero]}
VertexCounts == {LE32(c) : c \in 0..MaxVertices + 1} \cup {<<0, 0, 0, 127>>}
VertexTails == {<<>>, <<0>>, <<0, 0, 0, 0, 0, 0, 240, 63, 0, 0, 0, 0, 0, 0, 0>>}

RECURSIVE VerticesBytes(_)
VerticesBytes(vs) ==
    IF vs = <<>> THEN <<>> ELSE Head(vs).x \o Head(vs).y \o VerticesBytes(Tail(vs))

\* the vertices block built from a count field, stored vertices and a tail
VerticesBlock(in) == in.count \o VerticesBytes(in.stored) \o in.tail

----------------------------------------------------------------------------
(* Specification SpecDecode: one call of a text, pin or region decoder     *)

\* a payload cut short: at least one byte, at least one byte missing
Prefixes(b) == {SubSeq(b, 1, n) : n \in 1..Len(b) - 1}

InitDecode ==
    /\ \/ /\ pc = "parse_properties"
          /\ data \in SeqsUpTo(TextBytes, MaxTextLen) \cup TextExamples
          /\ input = [kind |-> "text"]
       \/ /\ pc = "read_string_from_block"
          /\ data \in {Bytes(b) : b \in StringBlocks}
          /\ input = [kind |-> "block"]
       \/ /\ pc = "parse_component_body_params"
          /\ data \in {Bytes(b) : b \in BodyBlocks}
          /\ input = [kind |-> "block"]
       \/ /\ pc = "parse_region_blocks"
          /\ input \in {[kind |-> "region", count |-> c, stored |-> vs, tail |-> t] :
                          c \in VertexCounts, vs \in SeqsUpTo(VertexCoords, MaxVertices),
                          t \in VertexTails}
          /\ data = Bytes(Block(<<1>>) \o Block(VerticesBlock(input)))
       \/ /\ pc = "parse_binary_pin"
          /\ input \in {[kind |-> "pin", fields |-> f] : f \in PinFields}
          /\ data = EncodePin(input.fields)
       \/ /\ pc = "parse_binary_pin"
          /\ input \in {[kind |-> "pin_cut", fields |-> f] : f \in CutPins}
          /\ data \in Prefixes(EncodePin(input.fields))
       \/ /\ pc = "parse_binary_pin"
          /\ input \in {[kind |-> "pin_bad_text", fields |-> f] : f \in CutPins}
          /\ data \in {EncodePinWith(input.fields, bad, <<>>, <<>>) : bad \in BadUtf8}
                \cup {EncodePinWith(input.fields, <<>>, bad, <<>>) : bad \in BadUtf8}
                \cup {EncodePinWith(input.fields, <<>>, <<>>, bad) : bad \in BadUtf8}
    /\ offset = 0
    /\ prim_num = 0
    /\ record_num = 0
    /\ records = <<>>
    /\ result = Idle

Returned(fn, value) ==
    /\ result' = [fn |-> fn, value |-> value]
    /\ pc' = "returned"
    /\ UNCHANGED <<data, offset, prim_num, record_num, records, input>>

CallParseProperties ==
    /\ pc = "parse_properties"
    /\ Returned("parse_properties", parse_properties(data))

CallReadString ==
    /\ pc = "read_string_from_block"
    /\ Returned("read_string_from_block", read_string_from_block(data))

CallBodyParams ==
    /\ pc = "parse_component_body_params"
    /\ Returned("parse_component_body_params", parse_component_body_params(data))

CallParsePin ==
    /\ pc = "parse_binary_pin"
    /\ Returned("parse_binary_pin", parse_binary_pin(data))

\* parse_region_blocks on a buffer that holds the primitive's two blocks
CallParseRegion ==
    /\ pc = "parse_region_blocks"
    /\ LET b0 == read_block(data, 0)
           b1 == read_block(data, b0.offset)
           r == parse_region_blocks(data, 0)
       IN  Returned("parse_region_blocks",
                    [offset |-> r.offset, raised |-> r.raised,
                     vertices |-> region_vertices(b1.block).vertices])

NextDecode ==
    \/ CallParseProperties
    \/ CallReadString
    \/ CallBodyParams
    \/ CallParsePin
    \/ CallParseRegion

SpecDecode == InitDecode /\ [][NextDecode]_vars

Called(fn) == pc = "returned" /\ result.fn = fn

\* C7 (as stated): a pin payload that ends before a declared field can be
\* read in full makes the pin decoder fail instead of returning a pin record.
C7_CutPinFails ==
    (Called("parse_binary_pin") /\ input.kind = "pin_cut") => result.value.raised

\* C8 (as stated): no decoder fails on, or loses the text of, any byte
\* sequence: the property parser keeps every piece that has an '=', the
\* embedded-string reader returns as many characters as the length byte
\* declares (when the block holds them), the pin decoder does not raise on
\* its string fields.
C8_TextDecodingTotal ==
    /\ Called("parse_properties") =>
          ((\E i \in 1..Len(data) : data[i] = 61) => result.value # <<>>)
    /\ Called("read_string_from_block") =>
          ((BLen(data) >= 1 /\ At(data, 0) + 1 <= BLen(data))
              => Len(result.value) = At(data, 0))
    /\ (Called("parse_binary_pin") /\ input.kind \in {"pin", "pin_bad_text"})
          => ~result.value.raised

\* the text of a byte string under a code page that maps every byte: cp1252
\* where it defines the byte, the byte's own value elsewhere
TotalText(b) ==
    [i \in 1..Len(b) |-> IF cp1252_defined(b[i]) THEN cp1252_char(b[i]) ELSE b[i]]

\* the pieces of a text between its '|', by where each starts and ends
PieceStarts(t) == {1} \cup {i + 1 : i \in {j \in 1..Len(t) : t[j] = 124}}
PieceEnd(t, start) ==
    IF \E j \in start..Len(t) : t[j] = 124
    THEN (CHOOSE j \in start..Len(t) :
              t[j] = 124 /\ \A k \in start..j - 1 : t[k] # 124) - 1
    ELSE Len(t)
FirstEq(t, start) ==
    CHOOSE j \in start..PieceEnd(t, start) :
        t[j] = 61 /\ \A k \in start..j - 1 : t[k] # 61
KeyedStarts(t) ==
    {st \in PieceStarts(t) : \E j \in st..PieceEnd(t, st) : t[j] = 61}
PieceKey(t, start) == SubSeq(t, start, FirstEq(t, start) - 1)
PieceValue(t, start) == SubSeq(t, FirstEq(t, start) + 1, PieceEnd(t, start))

\* for each key, the value of the last 'key=value' piece with that key
LastWritePairs(t) ==
    { <<PieceKey(t, st), PieceValue(t, st)>> : st \in
        {a \in KeyedStarts(t) :
            \A c \in KeyedStarts(t) : PieceKey(t, c) = PieceKey(t, a) => c <= a} }

DictItems(d) == {d[i] : i \in 1..Len(d)}

\* C9 (as stated): for every input the map parse_properties returns holds, for
\* each key, the value of the last 'key=value' piece with that key, and
\* nothing else; pieces without '=' leave no trace.
C9_LastWriteWins ==
    Called("parse_properties") =>
        /\ DictItems(result.value) = LastWritePairs(TotalText(data))
        /\ Len(result.value) = Cardinality(LastWritePairs(TotalText(data)))

\* The statement of C9 on the inputs cp1252 decodes (no byte 0x81, 0x8D,
\* 0x8F, 0x90, 0x9D).
C9_OnDecodableInput ==
    (Called("parse_properties") /\ \A i \in 1..Len(data) : cp1252_defined(data[i])) =>
        /\ DictItems(result.value) = LastWritePairs(TotalText(data))
        /\ Len(result.value) = Cardinality(LastWritePairs(TotalText(data)))

\* C10: a pin payload built from known field values in the fixed order
\* decodes to exactly those values (the record kind as its decimal text),
\* with the flag bits rotated=0x01, flipped=0x02, hidden=0x04, showName=0x08,
\* showDesignator=0x10, and the reader ends on the last byte of the payload:
\* every byte was read once, in order.
C10_PinRoundTrip ==
    (Called("parse_binary_pin") /\ input.kind = "pin") =>
        /\ ~result.value.raised
        /\ result.value.pos = Len(data)
        /\ LET p == result.value.props
               f == input.fields
           IN  /\ p.RECORD = str_int(f.recordKind)
               /\ p.OwnerPartId = f.ownerPartId
               /\ p.OwnerPartDisplayMode = f.ownerPartDisplayMode
               /\ p.Symbol_InnerEdge = f.innerEdge
               /\ p.Symbol_OuterEdge = f.outerEdge
               /\ p.Symbol_Inside = f.inside
               /\ p.Symbol_Outside = f.outside
               /\ p.Description = f.description
               /\ p.Electrical_Type = f.electricalType
               /\ p.Rotated = f.rotated
               /\ p.Flipped = f.flipped
               /\ p.Hide = f.hidden
               /\ p.Show_Name = f.showName
               /\ p.Show_Designator = f.showDesignator
               /\ p.Length = f.length
               /\ p.LocationX = f.x
               /\ p.LocationY = f.y
               /\ p.Color = f.color
               /\ p.Name = f.name
               /\ p.Designator = f.designator

C10_Witness ==
    /\ Called("parse_binary_pin")
    /\ input.kind = "pin"
    /\ ~result.value.raised
    /\ result.value.props.RECORD = <<45, 49>>
    /\ result.value.props.LocationX = -32768
    /\ result.value.props.Name = <<78, 233>>
    /\ result.value.props.Hide /\ ~result.value.props.Rotated
    /\ result.value.props.Show_Designator

\* the vertices block handed to the call: its length n, its declared count c
RegionN == Len(VerticesBlock(input))
RegionC == from_bytes_le(input.count)
RegionFits == Min(RegionC, (RegionN - 4) \div 16)

\* the vertices returned are the first RegionFits stored ones, vertex i read
\* from the bytes at 4+16i (x) and 4+16i+8 (y)
RegionDecodedAsStored ==
    /\ Len(result.value.vertices) = RegionFits
    /\ \A k \in 1..Len(result.value.vertices) :
          /\ result.value.vertices[k].i = k - 1
          /\ result.value.vertices[k].x = input.stored[k].x
          /\ result.value.vertices[k].y = input.stored[k].y

\* C11 (as stated): for a vertices block of length n >= 4 with declared count
\* c the region decoder decodes exactly min(c, floor((n-4)/16)) vertices,
\* vertex i from offsets 4+16i and 4+16i+8, and ends without error.
C11_RegionVertexCount ==
    Called("parse_region_blocks") =>
        /\ ~result.value.raised
        /\ RegionDecodedAsStored

\* the stored vertices that are decoded all have finite coordinates
RegionFinite ==
    \A k \in 1..Min(RegionFits, Len(input.stored)) : input.stored[k] \in FiniteCoords

\* C11 on blocks of finite coordinates: the count, the offsets and the
\* absence of an error are as stated, also when the declared count does not
\* fit the block.
C11_OnFiniteCoordinates ==
    (Called("parse_region_blocks") /\ RegionFinite) =>
        /\ ~result.value.raised
        /\ RegionDecodedAsStored
        /\ result.value.offset = BLen(data)

----------------------------------------------------------------------------
(* SchLib component streams                                                *)

\* most records, end markers and stray bytes in a stream
MaxRecords == 3

\* a record as a file writer stores it
Rec(type, payload) ==
    EncInt(Len(payload), 2) \o <<type \div 256, type % 256>> \o payload

\* the pin of the streams
StreamPin ==
    [recordKind |-> 2, ownerPartId |-> 1, length |-> 300, x |-> -1, y |-> 200,
     color |-> 255, skip1 |-> 0, skip2 |-> 0, spareFlags |-> 0,
     ownerPartDisplayMode |-> 0, innerEdge |-> 0, outerEdge |-> 1, inside |-> 2,
     outside |-> 3, electricalType |-> 4,
     rotated |-> TRUE, flipped |-> FALSE, hidden |-> FALSE, showName |-> TRUE,
     showDesignator |-> TRUE,
     description |-> <<>>, name |-> <<78>>, designator |-> <<49>>]

SchItemBytes(item) ==
    CASE item = "text"       -> Rec(0, <<124>> \o StrRECORD \o <<61, 49, 124, 65, 61, 49>>)
      [] item = "text_plain" -> Rec(0, <<65, 61, 49>>)
      \* a text record with a byte cp1252 does not define
      [] item = "text_bad"   -> Rec(0, <<65, 61, 129>>)
      [] item = "pin"        -> Rec(1, EncodePin(StreamPin))
      \* a pin record of three bytes
      [] item = "pin_cut"    -> Rec(1, SubSeq(EncodePin(StreamPin), 1, 3))
      \* a pin record whose name is the byte 0xFF
      [] item = "pin_bad_text" -> Rec(1, EncodePinWith(StreamPin, <<>>, <<255>>, <<>>))
      [] item = "other"      -> Rec(2, <<9, 171>>)
      [] item = "other_256"  -> Rec(256, <<7>>)
      [] item = "end"        -> <<0, 0, 0, 0>>
      \* a header that declares 9 bytes, with 2 behind it
      [] item = "overrun"    -> <<9, 0, 0, 0, 65, 61>>
      [] item = "stray"      -> <<5>>

SchRecords == {"text", "text_plain", "text_bad", "pin", "pin_cut", "pin_bad_text",
               "other", "other_256"}
SchItems == SchRecords \cup {"end", "overrun", "stray"}

RECURSIVE SchItemsBytes(_)
SchItemsBytes(items) ==
    IF items = <<>> THEN <<>>
    ELSE SchItemBytes(Head(items)) \o SchItemsBytes(Tail(items))

----------------------------------------------------------------------------
(* Specification SpecSchLib: the record loop of analyze_schlib on one      *)
(* component's Data stream (lines 129-194)                                 *)

InitSchLib ==
    /\ input \in {[kind |-> "schlib", items |-> it] : it \in SeqsUpTo(SchItems, MaxRecords)}
    /\ data = SchItemsBytes(input.items)
    /\ offset = 0
    /\ record_num = 0
    /\ records = <<>>
    /\ pc = "Loop"
    /\ prim_num = 0
    /\ result = Idle

\* line 133
InLoop == pc = "Loop" /\ offset < Len(data) - 4

\* lines 138-140: a record length of 0 is the end marker
SchEndMarker ==
    /\ InLoop
    /\ record_length(data, offset) = 0
    /\ pc' = "Done"
    /\ UNCHANGED <<data, offset, prim_num, record_num, records, result, input>>

\* lines 142-171: the record is decoded, appended and stepped over; lines
\* 190-194: an exception of the decode ends the component's loop
SchRecord ==
    /\ InLoop
    /\ record_length(data, offset) # 0
    /\ LET rec == decode_record(data, offset)
       IN  IF rec.raised
           THEN /\ pc' = "Error"
                /\ UNCHANGED <<offset, record_num, records>>
           ELSE /\ records' = Append(records, [rec_id |-> rec.rec_id, props |-> rec.props])
                /\ offset' = offset + 4 + record_length(data, offset)
                /\ record_num' = record_num + 1
                /\ pc' = "Loop"
    /\ UNCHANGED <<data, prim_num, result, input>>

\* line 133: fewer than five bytes are left
SchEndOfData ==
    /\ pc = "Loop"
    /\ ~(offset < Len(data) - 4)
    /\ pc' = "EndOfData"
    /\ UNCHANGED <<data, offset, prim_num, record_num, records, result, input>>

NextSchLib ==
    \/ SchEndMarker
    \/ SchRecord
    \/ SchEndOfData

SpecSchLib == InitSchLib /\ [][NextSchLib]_vars

\* C5 (as stated): after every record with recordLength > 0 the cursor is
\* exactly 4 + recordLength past the record's header and the loop goes on,
\* whether or not the payload decoded.
C5_CursorAlwaysAdvances ==
    [][ (InLoop /\ record_length(data, offset) > 0) =>
            /\ offset' = offset + 4 + record_length(data, offset)
            /\ pc' = "Loop" ]_vars

\* how the stream was put together: the records it starts with, and where
\* they end in the buffer
RECURSIVE SchPrefix(_)
SchPrefix(items) ==
    IF items # <<>> /\ Head(items) \in SchRecords THEN 1 + SchPrefix(Tail(items)) ELSE 0

NumLeadingRecords == SchPrefix(input.items)
AfterLeadingRecords == Len(SchItemsBytes(SubSeq(input.items, 1, NumLeadingRecords)))

\* the first header with recordLength 0 follows NumLeadingRecords records
ZeroHeaderFollows ==
    /\ input.kind = "schlib"
    /\ NumLeadingRecords < Len(input.items)
    /\ input.items[NumLeadingRecords + 1] = "end"

\* the record kind each record of a stream is filed under
ExpectedRecId(item) ==
    CASE item = "text"         -> <<49>>
      [] item = "text_plain"   -> StrUnknown
      [] item = "text_bad"     -> StrUnknown
      [] item = "pin"          -> Str2Binary
      [] item = "pin_cut"      -> Str2Binary
      [] item = "pin_bad_text" -> Str2Binary
      [] item = "other"        -> StrUnknownType \o <<50>>
      [] item = "other_256"    -> StrUnknownType \o <<50, 53, 54>>

\* the loop was left at its end marker (line 140) or by its condition (line
\* 133): both continue with the record summary of line 172
LoopCompleted == pc \in {"Done", "EndOfData"}

\* the records decoded are those in front of the zero-length header, in order
RecordsUpToZeroHeader ==
    /\ offset = AfterLeadingRecords
    /\ record_num = NumLeadingRecords
    /\ Len(records) = NumLeadingRecords
    /\ \A j \in 1..Len(records) : records[j].rec_id = ExpectedRecId(input.items[j])

\* C12 (as stated): a header with recordLength 0 ends the record loop in
\* Done; the decoded records are exactly those whose headers precede the first
\* zero-length header, none when the stream starts with it.
C12_ZeroLengthEndsStream ==
    ZeroHeaderFollows =>
        /\ offset <= AfterLeadingRecords
        /\ Len(records) <= NumLeadingRecords
        /\ pc # "Loop" => (LoopCompleted /\ RecordsUpToZeroHeader)

\* no record in front of the zero-length header makes parse_binary_pin raise
LeadingRecordsDecodable ==
    \A j \in 1..NumLeadingRecords : input.items[j] # "pin_bad_text"

\* C12 on streams whose pin records hold UTF-8 text: the loop ends normally
\* at the first zero-length header with exactly the records in front of it.
C12_OnDecodableRecords ==
    (ZeroHeaderFollows /\ LeadingRecordsDecodable) =>
        /\ offset <= AfterLeadingRecords
        /\ Len(records) <= NumLeadingRecords
        /\ pc # "Loop" => (LoopCompleted /\ RecordsUpToZeroHeader)
        /\ (pc = "Done") = (pc # "Loop" /\ AfterLeadingRecords < Len(data) - 4)

----------------------------------------------------------------------------
(* Specification SpecPrimitive: one branch of the if/elif chain of         *)
(* parse_footprint_data, on a buffer that holds a record type and the      *)
(* blocks of one primitive                                                 *)

\* the number of blocks a file writer stores for a primitive
BlockCount(rtype) ==
    CASE rtype = 2  -> 6
      [] rtype = 4  -> 1
      [] rtype = 1  -> 1
      [] rtype = 5  -> 2
      [] rtype = 11 -> 2
      [] rtype = 6  -> 1
      [] rtype = 12 -> 3

\* block contents: empty, one byte, an embedded string, geometry too short
\* for a pad, a track or an arc (44 bytes), geometry with every field (60
\* bytes), vertices with finite and with NaN coordinates
VerticesFinite == LE32(1) \o DoubleOne \o DoubleZero
VerticesNaN == LE32(1) \o DoubleOne \o DoubleNaN
ShortContents ==
    { <<>>, <<0>>, <<1, 65>>, [k \in 1..44 |-> 1], [k \in 1..60 |-> 1],
      VerticesFinite, VerticesNaN }

\* all-zero contents at and just above the ceiling of read_block
BigContents == {[head |-> <<>>, pad |-> len] : len \in {MaxBlockLen, MaxBlockLen + 1}}

\* what follows the primitive in the buffer
PrimitiveTails == {<<>>, <<0>>, Block(<<>>), Block(<<7>>)}

\* a buffer followed by another
BCat(a, b) ==
    IF b.head = <<>> THEN [head |-> a.head, pad |-> a.pad + b.pad]
    ELSE [head |-> ToSeq(a) \o b.head, pad |-> b.pad]

\* a block as a file writer stores it, for a content in compact form
BBlock(content) == BCat(Bytes(LE32(BLen(content))), content)

RECURSIVE BBlocks(_)
BBlocks(blocks) ==
    IF blocks = <<>> THEN Empty ELSE BCat(BBlock(Head(blocks)), BBlocks(Tail(blocks)))

\* a primitive of `count` blocks: content c1 at position i, c0 elsewhere
PrimitiveBlocks(count, c0, c1, i) == [j \in 1..count |-> IF j = i THEN c1 ELSE c0]

InitPrimitive ==
    /\ \E rtype \in DecodedTypes, c0 \in {Bytes(c) : c \in ShortContents},
          c1 \in {Bytes(c) : c \in ShortContents} \cup BigContents,
          tail \in {Bytes(t) : t \in PrimitiveTails} :
          \E i \in 1..BlockCount(rtype) :
             /\ c1 \in BigContents => (i = BlockCount(rtype) /\ tail.head = <<>>)
             /\ input = [kind |-> "primitive", rtype |-> rtype,
                         blocks |-> PrimitiveBlocks(BlockCount(rtype), c0, c1, i)]
             /\ data = BCat(Bytes(<<rtype>>), BCat(BBlocks(input.blocks), tail))
    /\ offset = 1
    /\ pc = "parse_primitive"
    /\ prim_num = 0
    /\ record_num = 0
    /\ records = <<>>
    /\ result = Idle

\* lines 126-139: the branch of the record type at data[0], the cursor behind it
CallParsePrimitive ==
    /\ pc = "parse_primitive"
    /\ Returned("parse_primitive", parse_primitive(At(data, 0), data, offset))

NextPrimitive == CallParsePrimitive

SpecPrimitive == InitPrimitive /\ [][NextPrimitive]_vars

\* the sum of 4 + L_i over the blocks the buffer holds for the primitive
RECURSIVE BlocksSize(_)
BlocksSize(blocks) ==
    IF blocks = <<>> THEN 0 ELSE 4 + BLen(Head(blocks)) + BlocksSize(Tail(blocks))

\* C13 (as stated): whatever its blocks contain, a primitive whose blocks all
\* fit in the buffer is decoded without error and leaves the cursor at the
\* cursor after the tag plus the sum of 4 + L_i over its 6 (Pad), 1 (Track,
\* Arc, Fill), 2 (Text, Region) or 3 (ComponentBody) blocks.
C13_FixedBlockSequence ==
    Called("parse_primitive") =>
        /\ ~result.value.raised
        /\ result.value.offset = offset + BlocksSize(input.blocks)

\* no block above the ceiling of read_block, no Region vertex that is not a
\* finite number
BlocksDecodable ==
    /\ \A j \in 1..Len(input.blocks) : BLen(input.blocks[j]) <= MaxBlockLen
    /\ input.rtype = 11 => input.blocks[2] # Bytes(VerticesNaN)

\* C13 on blocks within the ceiling and Regions of finite vertices: the
\* cursor is as stated, also for empty blocks and geometry too short to decode.
C13_OnDecodableBlocks ==
    (Called("parse_primitive") /\ BlocksDecodable) =>
        /\ ~result.value.raised
        /\ result.value.offset = offset + BlocksSize(input.blocks)

----------------------------------------------------------------------------
(* Specification SpecLoops: the two decode loops, on the streams of        *)
(* SpecFootprint and SpecSchLib and on buffers of arbitrary bytes          *)

\* longest run of arbitrary bytes behind the name block / in a component stream
MaxGarbageLen == 5
MaxSchGarbageLen == 6

\* record types, lengths that fit, lengths that do not
FootprintGarbage == {0, 1, 2, 5, 11, 127}
SchGarbage == {0, 1, 3, 200}

InitLoops ==
    \/ InitFootprint
    \/ InitSchLib
    \/ /\ input = [kind |-> "footprint_bytes", items |-> <<>>]
       /\ data \in {Bytes(NameBlock \o g) : g \in SeqsUpTo(FootprintGarbage, MaxGarbageLen)}
       /\ offset = 0
       /\ pc = "start"
       /\ prim_num = 0
       /\ record_num = 0
       /\ records = <<>>
       /\ result = Idle
    \/ /\ input = [kind |-> "schlib_bytes", items |-> <<>>]
       /\ data \in SeqsUpTo(SchGarbage, MaxSchGarbageLen)
       /\ offset = 0
       /\ record_num = 0
       /\ records = <<>>
       /\ pc = "Loop"
       /\ prim_num = 0
       /\ result = Idle

NextLoops ==
    \/ NextFootprint
    \/ NextSchLib

SpecLoops == InitLoops /\ [][NextLoops]_vars

\* an iteration of the primitive loop that does not leave the loop moves the
\* cursor forward by at least the tag byte, within the buffer
FootprintProgress ==
    pc = "Reading" =>
        /\ 0 <= offset /\ offset <= BLen(data)
        /\ pc' = "Reading" => (offset' >= offset + 1 /\ offset' <= BLen(data))

\* an iteration of the record loop that does not leave the loop moves the
\* cursor forward by 4 + recordLength, recordLength >= 1
SchLibProgress ==
    (pc = "Loop" /\ pc' = "Loop") =>
        /\ record_length(data, offset) >= 1
        /\ offset' = offset + 4 + record_length(data, offset)

\* the loops cannot go on for ever: every primitive counted has moved the
\* cursor by at least its tag byte within the buffer, every record counted by
\* at least 5 bytes, and the record loop goes on only while offset < len - 4
IterationsBounded ==
    /\ (input.kind \in {"footprint", "footprint_bytes"} /\ pc # "start") =>
          (prim_num <= offset /\ offset <= BLen(data))
    /\ (input.kind \in {"schlib", "schlib_bytes"} /\ record_num > 0) =>
          (5 * record_num <= offset /\ offset < Len(data) + 65535)

\* C14: both decode loops terminate on every buffer: each iteration of the
\* primitive loop stops or moves the cursor forward by at least the tag byte
\* with 0 <= cursor <= len(buffer), each iteration of the record loop stops
\* or moves the cursor forward by 4 + recordLength with recordLength >= 1;
\* the iterations of either loop are thus bounded by the length of the buffer.
C14_LoopsTerminate ==
    [][FootprintProgress /\ SchLibProgress /\ IterationsBounded /\ IterationsBounded']_vars

\* the primitive loop has gone through five tags whose length fields are
\* cut or above the ceiling, one byte each, and ended at the end of the buffer
C14_Witness ==
    /\ input.kind = "footprint_bytes"
    /\ pc = "Exhausted"
    /\ prim_num = 5
    /\ offset = BLen(data)
    /\ BLen(data) = Len(NameBlock) + 5

====
